---- MODULE Spec2Model ----
(***************************************************************************)
(* Model of the Trust Layer validator of BetSpecs-Engine                   *)
(* (src/src/trust_layer/validator.py) and of its odds schema               *)
(* (src/src/schemas/odds.py).                                              *)
(*                                                                         *)
(* Representation of the Python values:                                    *)
(*   str        a sequence of TLA+ strings whose concatenation is the      *)
(*              Python string; a team name is written one character per    *)
(*              element, a literal of the source as one element.           *)
(*   Optional   None is <<>>, a present value v is <<v>>.                  *)
(*   Decimal    the integer number of hundredths (Decimal("0.01") is 1,    *)
(*              Decimal("-110.00") is -11000): the model's Decimals all    *)
(*              carry two fractional digits, so +, - and abs are exact.    *)
(*   float      a confidence is the integer number of hundredths           *)
(*              (0.75 is 75, 1.0 is 100).                                  *)
(*   datetime   the reading of a logical clock, see now.                   *)
(***************************************************************************)
EXTENDS Integers, Sequences, FiniteSets, TLC

VARIABLES
    tolerance,          \* self.tolerance
    verification_log,   \* self.verification_log
    call,               \* the most recent call on the validator and its arguments
    ret,                \* what that call returned
    returned,           \* history: every VerificationResult handed to a caller so far
    checks,             \* history: the number of check results produced so far
    now,                \* the clock read by datetime.now(timezone.utc)
    odds_line,          \* the OddsLine most recently constructed (schemas/odds.py)
    outcome             \* what the most recent OddsLine operation returned or raised

vars == <<tolerance, verification_log, call, ret, returned, checks, now, odds_line, outcome>>

(***************************************************************************)
(* Bounds of the model.                                                    *)
(***************************************************************************)
MaxChecks == 3      \* check results produced on one validator (Spec)
MaxNameLen == 2     \* length of the generated team names (SpecTeam)
MaxOdds == 3        \* |odds|, in hundredths (SpecOdds)
MaxTol == 2         \* tolerance, in hundredths (SpecOdds)
MaxDelta == 3       \* distance of an odds value from a limit of validate_odds, in hundredths (SpecLine)

(***************************************************************************)
(* Generic helpers.                                                        *)
(***************************************************************************)
Abs(n) == IF n < 0 THEN -n ELSE n

Range(s) == {s[i] : i \in DOMAIN s}

None == <<>>

Some(v) == <<v>>

(***************************************************************************)
(* class VerificationStatus(str, Enum)                                     *)
(***************************************************************************)
VERIFIED == "verified"

FAILED == "failed"

PARTIAL == "partial"

SKIPPED == "skipped"

VerificationStatus == {VERIFIED, FAILED, PARTIAL, SKIPPED}

(***************************************************************************)
(* @dataclass VerificationResult                                           *)
(***************************************************************************)
VerificationResult(status, claim, source_value, ai_value, discrepancy, timestamp) ==
    [status |-> status, claim |-> claim, source_value |-> source_value,
     ai_value |-> ai_value, discrepancy |-> discrepancy, timestamp |-> timestamp]

(***************************************************************************)
(* str() of the numbers the validator formats.                             *)
(***************************************************************************)
Digit(d) == <<"0", "1", "2", "3", "4", "5", "6", "7", "8", "9">>[d + 1]

RECURSIVE NatStr(_)
NatStr(n) == IF n < 10 THEN <<Digit(n)>> ELSE NatStr(n \div 10) \o <<Digit(n % 10)>>

\* str(Decimal) of a Decimal with exponent -2: sign, integer part, ".", two digits.
DecimalStr(v) ==
    (IF v < 0 THEN <<"-">> ELSE <<>>)
        \o NatStr(Abs(v) \div 100) \o <<".">>
        \o <<Digit((Abs(v) % 100) \div 10), Digit(Abs(v) % 10)>>

\* str(float) of a multiple of 0.01: the shortest decimal that reads back.
FloatStr(c) ==
    (IF c < 0 THEN <<"-">> ELSE <<>>)
        \o NatStr(Abs(c) \div 100) \o <<".">>
        \o (IF Abs(c) % 10 = 0
            THEN <<Digit((Abs(c) % 100) \div 10)>>
            ELSE <<Digit((Abs(c) % 100) \div 10), Digit(Abs(c) % 10)>>)

(***************************************************************************)
(* str.lower(), str.strip() and the substring test `in` on team names.     *)
(***************************************************************************)
UpperCase == <<"A", "B", "C", "D", "E", "F", "G", "H", "I", "J", "K", "L", "M",
               "N", "O", "P", "Q", "R", "S", "T", "U", "V", "W", "X", "Y", "Z">>

LowerCase == <<"a", "b", "c", "d", "e", "f", "g", "h", "i", "j", "k", "l", "m",
               "n", "o", "p", "q", "r", "s", "t", "u", "v", "w", "x", "y", "z">>

Whitespace == {" ", "\t", "\n", "\r"}

LowerChar(c) ==
    IF \E i \in DOMAIN UpperCase : UpperCase[i] = c
    THEN LowerCase[CHOOSE i \in DOMAIN UpperCase : UpperCase[i] = c]
    ELSE c

Lower(s) == [i \in DOMAIN s |-> LowerChar(s[i])]

RECURSIVE LStrip(_)
LStrip(s) == IF s # <<>> /\ Head(s) \in Whitespace THEN LStrip(Tail(s)) ELSE s

RECURSIVE RStrip(_)
RStrip(s) ==
    IF s # <<>> /\ s[Len(s)] \in Whitespace THEN RStrip(SubSeq(s, 1, Len(s) - 1)) ELSE s

Strip(s) == RStrip(LStrip(s))

\* needle in hay
In(needle, hay) ==
    \E start \in 0..(Len(hay) - Len(needle)) :
        \A k \in 1..Len(needle) : hay[start + k] = needle[k]

(***************************************************************************)
(* The inputs of the model.  The team names and odds are those of          *)
(* tests/test_validator.py and examples/verify_prediction.py, the aliases  *)
(* those of the specification's examples.                                  *)
(***************************************************************************)
Lakers == <<"L", "a", "k", "e", "r", "s">>

LakersShouted == <<" ", "L", "A", "K", "E", "R", "S", " ">>

LosAngelesLakers == <<"L", "o", "s", " ", "A", "n", "g", "e", "l", "e", "s", " ", "L", "a", "k", "e", "r", "s">>

LosAngelesLakersUpper == <<"L", "O", "S", " ", "A", "N", "G", "E", "L", "E", "S", " ", "L", "A", "K", "E", "R", "S">>

BostonCeltics == <<"B", "o", "s", "t", "o", "n", " ", "C", "e", "l", "t", "i", "c", "s">>

Dubs == <<"D", "u", "b", "s">>

GoldenStateWarriors == <<"G", "o", "l", "d", "e", "n", " ", "S", "t", "a", "t", "e", " ", "W", "a", "r", "r", "i", "o", "r", "s">>

\* Spec: claimed and source team names, selections, odds, confidences, tolerances.
ClaimedTeams == {LosAngelesLakers, Lakers, BostonCeltics}

SourceTeams == {LosAngelesLakers}

Selections == {Lakers}

ClaimedOdds == {-11000, -11030, -15000}

SourceOdds == {-11000}

Confidences == {-1, 0, 100, 101}

DefaultTolerance == 1

Tolerances == {DefaultTolerance, 50}

\* SpecTeam: the names above and every string of at most MaxNameLen characters.
Alphabet == {"a", "A", "b", " "}

ShortNames == UNION {[1..n -> Alphabet] : n \in 0..MaxNameLen}

ExampleNames ==
    {Lakers, LakersShouted, LosAngelesLakers, LosAngelesLakersUpper, BostonCeltics,
     Dubs, GoldenStateWarriors}

WideNames == ShortNames \cup ExampleNames

\* SpecOdds: every odds value and tolerance within the bounds.
WideOdds == (-MaxOdds)..MaxOdds

WideTolerances == (-1)..MaxTol

\* SpecLine: the odds within MaxDelta hundredths of each limit of validate_odds
\* and of zero, and the odds of the tests.
OddsLimits == {-1000000, -10000, 0, 10000, 1000000}

LineOdds ==
    {limit + delta : limit \in OddsLimits, delta \in (-MaxDelta)..MaxDelta}
        \cup ClaimedOdds \cup {12500}

(***************************************************************************)
(* class OddsFormat(str, Enum) and class OddsLine(BaseModel)               *)
(***************************************************************************)
AMERICAN == "american"

DECIMAL == "decimal"

FRACTIONAL == "fractional"

OddsFormat == {AMERICAN, DECIMAL, FRACTIONAL}

OddsLine(selection, odds, odds_format) ==
    [selection |-> selection, odds |-> odds, odds_format |-> odds_format,
     implied_probability |-> None]

\* No OddsLine constructed yet, no operation on one made yet.
NoLine == [selection |-> None]

NoOutcome == [op |-> "none", raised |-> None, value |-> None]

NoOddsLine == odds_line = NoLine /\ outcome = NoOutcome

Returns(op, value) == [op |-> op, raised |-> None, value |-> Some(value)]

Raises(op, exception, message) ==
    [op |-> op, raised |-> Some([exception |-> exception, message |-> message]),
     value |-> None]

\* OddsLine.validate_odds: None when v is accepted, else the ValueError's message.
\* The limits are -10000, -100, 100 and 10000, in hundredths.
ValidateOdds(v) ==
    IF v < -1000000 \/ v > 1000000
    THEN Some(<<"Odds out of range: ">> \o DecimalStr(v))
    ELSE IF -10000 < v /\ v < 10000 /\ v # 0
         THEN Some(<<"Invalid American odds: ">> \o DecimalStr(v))
         ELSE None

\* OddsLine(selection=..., odds=..., odds_format=...): the field validator runs
\* and its ValueError, if any, leaves no object behind.
NewOddsLine(selection, odds, odds_format) ==
    LET error == ValidateOdds(odds)
    IN  /\ IF error = None
           THEN /\ odds_line' = OddsLine(selection, odds, odds_format)
                /\ outcome' = Returns("OddsLine", odds)
           ELSE /\ odds_line' = odds_line
                /\ outcome' = Raises("OddsLine", "ValueError", error[1])
        /\ UNCHANGED <<tolerance, verification_log, call, ret, returned, checks, now>>

\* Decimal / Decimal: decimal.DivisionByZero (a ZeroDivisionError) on a zero
\* divisor, else the quotient, kept as the fraction it rounds.
Divide(op, numerator, denominator) ==
    IF denominator = 0
    THEN Raises(op, "DivisionByZero", <<"[<class 'decimal.DivisionByZero'>]">>)
    ELSE Returns(op, [num |-> numerator, den |-> denominator])

\* OddsLine.calculate_implied_probability; Decimal(100) is 10000 hundredths and
\* Decimal(1) is 100.
ImpliedProbability(line) ==
    IF line.odds_format = AMERICAN
    THEN IF line.odds > 0
         THEN Divide("calculate_implied_probability", 10000, line.odds + 10000)
         ELSE Divide("calculate_implied_probability", Abs(line.odds), Abs(line.odds) + 10000)
    ELSE IF line.odds_format = DECIMAL
         THEN Divide("calculate_implied_probability", 100, line.odds)
         ELSE Returns("calculate_implied_probability", [num |-> 0, den |-> 1])

CalculateImpliedProbability ==
    /\ odds_line # NoLine
    /\ outcome' = ImpliedProbability(odds_line)
    /\ UNCHANGED <<tolerance, verification_log, call, ret, returned, checks, now, odds_line>>

(***************************************************************************)
(* TrustLayerValidator.__init__                                            *)
(***************************************************************************)
NoCall == [op |-> "__init__"]

NoReturn == [op |-> "__init__"]

Construct(tol) ==
    /\ tolerance = tol
    /\ verification_log = <<>>
    /\ call = NoCall
    /\ ret = NoReturn
    /\ returned = {}
    /\ checks = 0
    /\ now = 0

\* self.verification_log.append(result)
LogAppendFront(log, result) == <<result>> \o log

LogAppend(log, result) == Append(log, result)

(***************************************************************************)
(* TrustLayerValidator.verify_odds_claim                                   *)
(***************************************************************************)
WithinToleranceStrict(diff, tol) == diff < tol

\* diff <= self.tolerance
WithinTolerance(diff, tol) == diff <= tol

OddsResult(claimed_odds, source_odds, selection, tol, timestamp) ==
    LET diff == Abs(claimed_odds - source_odds)
    IN  IF WithinTolerance(diff, tol)
        THEN VerificationResult(
                 VERIFIED,
                 <<"Odds for ">> \o selection,
                 Some(DecimalStr(source_odds)),
                 Some(DecimalStr(claimed_odds)),
                 None,
                 timestamp)
        ELSE VerificationResult(
                 FAILED,
                 <<"Odds for ">> \o selection,
                 Some(DecimalStr(source_odds)),
                 Some(DecimalStr(claimed_odds)),
                 Some(<<"Difference of ">> \o DecimalStr(diff)
                          \o <<" exceeds tolerance ">> \o DecimalStr(tol)),
                 timestamp)

VerifyOddsClaim(claimed_odds, source_odds, selection) ==
    LET result == OddsResult(claimed_odds, source_odds, selection, tolerance, now)
    IN  /\ verification_log' = LogAppend(verification_log, result)
        /\ call' = [op |-> "verify_odds_claim", claimed_odds |-> claimed_odds,
                    source_odds |-> source_odds, selection |-> selection]
        /\ ret' = result
        /\ returned' = returned \cup {result}
        /\ checks' = checks + 1
        /\ now' = now + 1
        /\ UNCHANGED <<tolerance, odds_line, outcome>>

(***************************************************************************)
(* TrustLayerValidator.verify_team_name                                    *)
(***************************************************************************)
NormalizeNoStrip(name) == Lower(name)

\* claimed_team.lower().strip()
Normalize(name) == Strip(Lower(name))

TeamNameVerdictSilent(claimed_normalized, source_normalized) ==
    IF claimed_normalized = source_normalized
    THEN [status |-> VERIFIED, discrepancy |-> None]
    ELSE IF \/ In(claimed_normalized, source_normalized)
            \/ In(source_normalized, claimed_normalized)
         THEN [status |-> PARTIAL, discrepancy |-> None]
         ELSE [status |-> FAILED, discrepancy |-> Some(<<"Team name mismatch">>)]

\* the if / elif / else that sets status and discrepancy
TeamNameVerdict(claimed_normalized, source_normalized) ==
    IF claimed_normalized = source_normalized
    THEN [status |-> VERIFIED, discrepancy |-> None]
    ELSE IF \/ In(claimed_normalized, source_normalized)
            \/ In(source_normalized, claimed_normalized)
         THEN [status |-> PARTIAL,
               discrepancy |-> Some(<<"Partial match - may be abbreviation">>)]
         ELSE [status |-> FAILED, discrepancy |-> Some(<<"Team name mismatch">>)]

TeamNameResult(claimed_team, source_team, timestamp) ==
    LET claimed_normalized == Normalize(claimed_team)
        source_normalized == Normalize(source_team)
        verdict == TeamNameVerdict(claimed_normalized, source_normalized)
    IN  VerificationResult(
            verdict.status,
            <<"Team name">>,
            Some(source_team),
            Some(claimed_team),
            verdict.discrepancy,
            timestamp)

VerifyTeamName(claimed_team, source_team) ==
    LET result == TeamNameResult(claimed_team, source_team, now)
    IN  /\ verification_log' = LogAppend(verification_log, result)
        /\ call' = [op |-> "verify_team_name", claimed_team |-> claimed_team,
                    source_team |-> source_team]
        /\ ret' = result
        /\ returned' = returned \cup {result}
        /\ checks' = checks + 1
        /\ now' = now + 1
        /\ UNCHANGED <<tolerance, odds_line, outcome>>

(***************************************************************************)
(* TrustLayerValidator.verify_prediction                                   *)
(***************************************************************************)
\* prediction.confidence > 1.0 or prediction.confidence < 0
ConfidenceOutOfRange(confidence) == confidence > 100 \/ confidence < 0

ConfidenceResult(confidence, timestamp) ==
    VerificationResult(
        FAILED,
        <<"Confidence score">>,
        Some(<<"0.0-1.0">>),
        Some(FloatStr(confidence)),
        Some(<<"Confidence out of valid range">>),
        timestamp)

RECURSIVE AllPassedLenient(_)
AllPassedLenient(results) ==
    IF results = <<>> THEN TRUE
    ELSE IF Head(results).status \notin {VERIFIED, PARTIAL} THEN FALSE
    ELSE AllPassedLenient(Tail(results))

\* all(r.status == VerificationStatus.VERIFIED for r in results)
RECURSIVE AllPassed(_)
AllPassed(results) ==
    IF results = <<>> THEN TRUE
    ELSE IF Head(results).status # VERIFIED THEN FALSE
    ELSE AllPassed(Tail(results))

VerifyPrediction(prediction, source_odds, source_team) ==
    LET team_result == TeamNameResult(prediction.predicted_value, source_team, now)
        bad == ConfidenceOutOfRange(prediction.confidence)
        results == IF bad
                   THEN <<team_result, ConfidenceResult(prediction.confidence, now + 1)>>
                   ELSE <<team_result>>
    IN  /\ verification_log' = LogAppend(verification_log, team_result)
        /\ call' = [op |-> "verify_prediction", prediction |-> prediction,
                    source_odds |-> source_odds, source_team |-> source_team]
        /\ ret' = [all_passed |-> AllPassed(results), results |-> results]
        /\ returned' = returned \cup Range(results)
        /\ checks' = checks + Len(results)
        /\ now' = now + Len(results)
        /\ UNCHANGED <<tolerance, odds_line, outcome>>

(***************************************************************************)
(* TrustLayerValidator.get_verification_summary                            *)
(***************************************************************************)
RECURSIVE CountStatus(_, _)
CountStatus(log, status) ==
    IF log = <<>> THEN 0
    ELSE (IF Head(log).status = status THEN 1 ELSE 0) + CountStatus(Tail(log), status)

\* verified / total if total > 0 else 0.0, as a fraction
PassRate(verified, total) ==
    IF total > 0 THEN [num |-> verified, den |-> total] ELSE [num |-> 0, den |-> 1]

VerificationSummary(log) ==
    LET total == Len(log)
        verified == CountStatus(log, VERIFIED)
        failed == CountStatus(log, FAILED)
    IN  [total_checks |-> total, verified |-> verified, failed |-> failed,
         pass_rate |-> PassRate(verified, total)]

GetVerificationSummary ==
    /\ call' = [op |-> "get_verification_summary"]
    /\ ret' = VerificationSummary(verification_log)
    /\ UNCHANGED <<tolerance, verification_log, returned, checks, now, odds_line, outcome>>

(***************************************************************************)
(* Spec: a validator of either tolerance, driven by any sequence of calls  *)
(* that produces at most MaxChecks check results.                          *)
(***************************************************************************)
Init == NoOddsLine /\ \E tol \in Tolerances : Construct(tol)

CallVerifyOddsClaim ==
    /\ checks < MaxChecks
    /\ \E claimed_odds \in ClaimedOdds, source_odds \in SourceOdds, selection \in Selections :
           VerifyOddsClaim(claimed_odds, source_odds, selection)

CallVerifyTeamName ==
    /\ checks < MaxChecks
    /\ \E claimed_team \in ClaimedTeams, source_team \in SourceTeams :
           VerifyTeamName(claimed_team, source_team)

CallVerifyPrediction ==
    /\ checks < MaxChecks
    /\ \E predicted_value \in ClaimedTeams, confidence \in Confidences,
          source_odds \in SourceOdds, source_team \in SourceTeams :
           VerifyPrediction(
               [predicted_value |-> predicted_value, confidence |-> confidence],
               source_odds, source_team)

Next ==
    \/ CallVerifyOddsClaim
    \/ CallVerifyTeamName
    \/ CallVerifyPrediction
    \/ GetVerificationSummary

Spec == Init /\ [][Next]_vars

(***************************************************************************)
(* SpecTeam: verify_team_name applied once, on a fresh validator, to every *)
(* pair of names of WideNames.                                             *)
(***************************************************************************)
InitTeam == NoOddsLine /\ Construct(DefaultTolerance)

NextTeam ==
    /\ call = NoCall
    /\ \E claimed_team \in WideNames, source_team \in WideNames :
           VerifyTeamName(claimed_team, source_team)

SpecTeam == InitTeam /\ [][NextTeam]_vars

(***************************************************************************)
(* SpecOdds: verify_odds_claim applied once, on a fresh validator of every *)
(* tolerance of WideTolerances, to every pair of odds of WideOdds.         *)
(***************************************************************************)
InitOdds == NoOddsLine /\ \E tol \in WideTolerances : Construct(tol)

NextOdds ==
    /\ call = NoCall
    /\ \E claimed_odds \in WideOdds, source_odds \in WideOdds, selection \in Selections :
           VerifyOddsClaim(claimed_odds, source_odds, selection)

SpecOdds == InitOdds /\ [][NextOdds]_vars

(***************************************************************************)
(* SpecLine: OddsLine objects built from every odds value of LineOdds in   *)
(* every format; calculate_implied_probability called on those that were   *)
(* accepted.                                                               *)
(***************************************************************************)
InitLine == NoOddsLine /\ Construct(DefaultTolerance)

CallNewOddsLine ==
    \E selection \in Selections, odds \in LineOdds, odds_format \in OddsFormat :
        NewOddsLine(selection, odds, odds_format)

NextLine ==
    \/ CallNewOddsLine
    \/ CalculateImpliedProbability

SpecLine == InitLine /\ [][NextLine]_vars

(***************************************************************************)
(* Notions the claims are stated with, written without the operators of    *)
(* the model above.                                                        *)
(***************************************************************************)
\* The same letter, whatever its case.
SameLetter(c, d) ==
    c = d \/ \E i \in DOMAIN UpperCase : {c, d} = {UpperCase[i], LowerCase[i]}

EqualIgnoringCase(x, y) ==
    Len(x) = Len(y) /\ \A i \in DOMAIN x : SameLetter(x[i], y[i])

\* name without its leading and trailing whitespace
Trimmed(name) ==
    LET inked == {i \in DOMAIN name : name[i] \notin Whitespace}
    IN  IF inked = {} THEN <<>>
        ELSE SubSeq(name,
                    CHOOSE i \in inked : \A j \in inked : i <= j,
                    CHOOSE i \in inked : \A j \in inked : j <= i)

ContainedIgnoringCase(x, y) ==
    \E i \in 1..(Len(y) + 1) : \E j \in (i - 1)..Len(y) :
        EqualIgnoringCase(x, SubSeq(y, i, j))

\* The classification of two team names on their case-folded, trimmed forms.
ExpectedTeamStatus(claimed, source) ==
    LET c == Trimmed(claimed)
        s == Trimmed(source)
    IN  IF EqualIgnoringCase(c, s) THEN VERIFIED
        ELSE IF ContainedIgnoringCase(c, s) \/ ContainedIgnoringCase(s, c) THEN PARTIAL
        ELSE FAILED

Shouted(name) ==
    [i \in DOMAIN name |->
        IF \E k \in DOMAIN LowerCase : LowerCase[k] = name[i]
        THEN UpperCase[CHOOSE k \in DOMAIN LowerCase : LowerCase[k] = name[i]]
        ELSE name[i]]

\* Some names that differ from name only in letter case or surrounding whitespace.
Respellings(name) ==
    {name, Shouted(name), <<" ">> \o name, name \o <<" ", "\t">>,
     <<"\t">> \o Shouted(name) \o <<" ">>}

\* An Optional[str] that holds a non-empty string.
NonEmptyText(text) ==
    text # None /\ \E i \in DOMAIN text[1] : text[1][i] # ""

ConfidenceResults(results) ==
    {i \in DOMAIN results : results[i].claim = <<"Confidence score">>}

\* The alias table of the specification's examples: alias, canonical name.
KnownAliases == {<<Dubs, GoldenStateWarriors>>}

\* A per-status count of a summary; a count the summary does not report adds nothing.
Reported(summary, key) == IF key \in DOMAIN summary THEN summary[key] ELSE 0

(***************************************************************************)
(* The claims.                                                             *)
(***************************************************************************)

\* C1: every VerificationResult returned to a caller, the FAILED 'Confidence
\* score' result of verify_prediction included, is an element of the
\* validator's verification_log.
C1_ReturnedResultsAreLogged ==
    returned \subseteq Range(verification_log)

\* C2: verify_prediction returns all_passed true if and only if every result of
\* the returned list is VERIFIED; a PARTIAL team-name result ('Lakers' against
\* 'Los Angeles Lakers') makes all_passed false.
C2_AllPassedIffAllVerified ==
    call.op = "verify_prediction" =>
        /\ ret.all_passed <=> {ret.results[i].status : i \in DOMAIN ret.results} \subseteq {VERIFIED}
        /\ (call.prediction.predicted_value = Lakers /\ call.source_team = LosAngelesLakers) =>
               (ret.results[1].status = PARTIAL /\ ~ret.all_passed)

C2_Witness ==
    /\ call.op = "verify_prediction"
    /\ call.prediction.predicted_value = Lakers
    /\ call.source_team = LosAngelesLakers
    /\ ~ConfidenceOutOfRange(call.prediction.confidence)
    /\ Len(ret.results) = 1
    /\ ret.results[1].status = PARTIAL
    /\ ret.all_passed = FALSE

\* C3: every verify_prediction call returns, in this order, one team-name
\* result, one odds result and one confidence result, whatever the status of
\* the earlier ones.
C3_ThreeChecksInOrder ==
    call.op = "verify_prediction" =>
        /\ Len(ret.results) = 3
        /\ ret.results[1].claim = <<"Team name">>
        /\ Head(ret.results[2].claim) = "Odds for "
        /\ ret.results[3].claim = <<"Confidence score">>

\* C4: verify_odds_claim returns VERIFIED if and only if
\* |claimed_odds - source_odds| <= tolerance and FAILED otherwise; a difference
\* equal to the tolerance is VERIFIED.
C4_VerifiedIffWithinTolerance ==
    call.op = "verify_odds_claim" =>
        LET within == /\ call.claimed_odds - call.source_odds <= tolerance
                      /\ call.source_odds - call.claimed_odds <= tolerance
        IN  /\ ret.status = VERIFIED <=> within
            /\ ret.status = FAILED <=> ~within

C4_Witness ==
    /\ call.op = "verify_odds_claim"
    /\ tolerance > 0
    /\ call.claimed_odds - call.source_odds = tolerance
    /\ ret.status = VERIFIED

\* C5: a claimed name that is a known alias of the source's canonical name
\* ('Dubs' against 'Golden State Warriors') is VERIFIED, never PARTIAL or
\* FAILED.
C5_AliasIsVerified ==
    (/\ call.op = "verify_team_name"
     /\ \E alias \in KnownAliases :
            /\ EqualIgnoringCase(Trimmed(call.claimed_team), alias[1])
            /\ EqualIgnoringCase(Trimmed(call.source_team), alias[2]))
        => ret.status = VERIFIED

\* C6: verify_team_name classifies on the case-folded, whitespace-trimmed names,
\* first match winning: equal gives VERIFIED, otherwise one contained in the
\* other gives PARTIAL, otherwise FAILED; so names that differ only in letter
\* case or surrounding whitespace get the same status.
C6_ClassifiesNormalizedNames ==
    call.op = "verify_team_name" =>
        /\ ret.status = ExpectedTeamStatus(call.claimed_team, call.source_team)
        /\ \A claimed \in Respellings(call.claimed_team), source \in Respellings(call.source_team) :
               TeamNameResult(claimed, source, now).status = ret.status

C6_Witness ==
    /\ call.op = "verify_team_name"
    /\ call.claimed_team = LakersShouted
    /\ call.source_team = Lakers
    /\ ret.status = VERIFIED

\* C7: get_verification_summary reports total_checks equal to the number N of
\* checks made, and its per-status counts add up to it
\* (verified + failed + partial + stale = N).
C7_SummaryCountsEveryCheck ==
    call.op = "get_verification_summary" =>
        /\ ret.total_checks = checks
        /\ Reported(ret, "verified") + Reported(ret, "failed")
               + Reported(ret, "partial") + Reported(ret, "stale") = checks

\* C8: the confidence check produces a result for every confidence value:
\* VERIFIED for every value of [0.0, 1.0], FAILED for every value outside it.
C8_ConfidenceAlwaysHasResult ==
    call.op = "verify_prediction" =>
        /\ Cardinality(ConfidenceResults(ret.results)) = 1
        /\ \A i \in ConfidenceResults(ret.results) :
               ret.results[i].status =
                   IF 0 <= call.prediction.confidence /\ call.prediction.confidence <= 100
                   THEN VERIFIED ELSE FAILED

\* C9: a mismatch never raises but yields a result that is not VERIFIED; every
\* result that is not VERIFIED carries a non-empty discrepancy and every
\* VERIFIED result has discrepancy None.
C9_DiscrepancyTellsStatus ==
    /\ \A r \in returned \cup Range(verification_log) :
           /\ r.status = VERIFIED => r.discrepancy = None
           /\ r.status # VERIFIED => NonEmptyText(r.discrepancy)
    /\ (call.op = "verify_odds_claim" /\ Abs(call.claimed_odds - call.source_odds) > tolerance) =>
           (ret.status = FAILED /\ NonEmptyText(ret.discrepancy))
    /\ (call.op = "verify_team_name"
            /\ ~EqualIgnoringCase(Trimmed(call.claimed_team), Trimmed(call.source_team))) =>
           (ret.status \in {PARTIAL, FAILED} /\ NonEmptyText(ret.discrepancy))
    /\ (call.op = "verify_prediction"
            /\ (call.prediction.confidence < 0 \/ call.prediction.confidence > 100)) =>
           \E i \in ConfidenceResults(ret.results) :
               ret.results[i].status = FAILED /\ NonEmptyText(ret.results[i].discrepancy)

C9_Witness ==
    /\ call.op = "verify_prediction"
    /\ call.prediction.confidence > 100
    /\ ret.results[1].status = PARTIAL
    /\ ret.results[2].status = FAILED
    /\ \E i \in DOMAIN verification_log :
           /\ verification_log[i].status = FAILED
           /\ Head(verification_log[i].claim) = "Odds for "
    /\ \E i \in DOMAIN verification_log : verification_log[i].status = VERIFIED

\* C10: verification_log is append-only and ordered by arrival: verify_odds_claim
\* and verify_team_name each append exactly the result they return at the end,
\* no operation removes, reorders or modifies an entry, and
\* get_verification_summary leaves the log unchanged.
C10_LogIsAppendOnly ==
    [][/\ Len(verification_log) <= Len(verification_log')
       /\ SubSeq(verification_log', 1, Len(verification_log)) = verification_log
       /\ call'.op \in {"verify_odds_claim", "verify_team_name"} =>
              verification_log' = Append(verification_log, ret')
       /\ call'.op = "get_verification_summary" => verification_log' = verification_log
       /\ \A i, j \in DOMAIN verification_log' :
              i < j => verification_log'[i].timestamp < verification_log'[j].timestamp
      ]_vars

C10_Witness ==
    /\ call.op = "get_verification_summary"
    /\ Len(verification_log) = 3
    /\ verification_log[1].claim = <<"Team name">>
    /\ Head(verification_log[2].claim) = "Odds for "
    /\ ret.total_checks = 3

\* The odds validate_odds accepts, as the claim words them: within
\* [-10000, 10000] and either 0 or outside the open interval (-100, 100).
AcceptedOdds(v) ==
    /\ -1000000 <= v /\ v <= 1000000
    /\ v = 0 \/ v <= -10000 \/ v >= 10000

\* C11: for every OddsLine whose odds validate_odds accepted, in every
\* odds_format, calculate_implied_probability completes without a division by
\* zero.
C11_NoDivisionByZero ==
    (/\ outcome.op = "calculate_implied_probability"
     /\ AcceptedOdds(odds_line.odds)
     /\ odds_line.odds_format \in OddsFormat)
        => outcome.raised = None

====
